---- MODULE Spec2Model ----
(***************************************************************************)
(* Configuration and session bootstrap of cf-deck (helpers/settings.go):   *)
(* Settings.InitSettings, the redis connection resolver getRedisSettings,  *)
(* and the redis connection pool with its Dial and health-check closures.  *)
(***************************************************************************)
EXTENDS Integers, Sequences, FiniteSets, TLC

(***************************************************************************)
(* Bounds of the model.                                                    *)
(***************************************************************************)
\* At most this many services in the service binding (VCAP_SERVICES).
MaxServices == 1
\* At most this many of the MustGet variables are absent from the environment.
MaxMissing == 1
\* Request-handling units that borrow from the pool beside the health probe.
NumRequests == 11

(***************************************************************************)
(* Errors: every Go error value is a record [kind, arg]; NoErr is nil.     *)
(***************************************************************************)
NoErr == [kind |-> "nil", arg |-> ""]
ErrorsNew(msg) == [kind |-> "errorString", arg |-> msg]
ErrMissingEnvVar(name) == [kind |-> "ErrMissingEnvVar", arg |-> name]
ErrURLParse(msg) == [kind |-> "url.Error", arg |-> msg]

(***************************************************************************)
(* Strings that are parsed are sequences of tokens: a token is a run of    *)
(* letters, a run of digits, or one delimiter character.                   *)
(***************************************************************************)
LetterRuns == {"redis", "cachehost", "localhost", "secret", "direct", "hunter"}
DigitRuns == {"6379", "6380", "7000"}

Index(str, tok) ==
    IF \E i \in 1..Len(str) : str[i] = tok
    THEN CHOOSE i \in 1..Len(str) : str[i] = tok /\ \A j \in 1..(i - 1) : str[j] # tok
    ELSE 0

LastIndex(str, tok) ==
    IF \E i \in 1..Len(str) : str[i] = tok
    THEN CHOOSE i \in 1..Len(str) : str[i] = tok /\ \A j \in (i + 1)..Len(str) : str[j] # tok
    ELSE 0

HasPrefix(str, pre) ==
    Len(str) >= Len(pre) /\ SubSeq(str, 1, Len(pre)) = pre

\* net/url getscheme: the index of the first token that ends the scan, 0 if the
\* scan runs to the end of the string.
SchemeStop(rawurl) ==
    LET stops == {i \in 1..Len(rawurl) :
                     \/ rawurl[i] \notin (LetterRuns \cup DigitRuns)
                     \/ (i = 1 /\ rawurl[i] \in DigitRuns)}
    IN  IF stops = {} THEN 0 ELSE CHOOSE i \in stops : \A j \in stops : i <= j

\* net/url validOptionalPort: "" or ":" followed by digits only.
validOptionalPort(port) ==
    \/ port = <<>>
    \/ /\ port[1] = ":"
       /\ \A i \in 2..Len(port) : port[i] \in DigitRuns

\* net/url parseAuthority + parseHost, for an authority without brackets.
parseAuthority(authority) ==
    LET at == LastIndex(authority, "@")
        host == SubSeq(authority, at + 1, Len(authority))
        colon == LastIndex(host, ":")
        userinfo == SubSeq(authority, 1, at - 1)
        ucolon == Index(userinfo, ":")
    IN  IF colon # 0 /\ ~validOptionalPort(SubSeq(host, colon, Len(host)))
        THEN [err |-> ErrURLParse("invalid port"), host |-> <<>>,
              hasUser |-> FALSE, password |-> <<>>, passwordSet |-> FALSE]
        ELSE IF at = 0
        THEN [err |-> NoErr, host |-> host,
              hasUser |-> FALSE, password |-> <<>>, passwordSet |-> FALSE]
        ELSE IF "/" \in {userinfo[i] : i \in 1..Len(userinfo)}
        THEN [err |-> ErrURLParse("net/url: invalid userinfo"), host |-> <<>>,
              hasUser |-> FALSE, password |-> <<>>, passwordSet |-> FALSE]
        ELSE IF ucolon = 0
        THEN [err |-> NoErr, host |-> host,
              hasUser |-> TRUE, password |-> <<>>, passwordSet |-> FALSE]
        ELSE [err |-> NoErr, host |-> host, hasUser |-> TRUE,
              password |-> SubSeq(userinfo, ucolon + 1, Len(userinfo)),
              passwordSet |-> TRUE]

\* net/url Parse, as getRedisSettings uses it: the fields Host and User of the URL.
urlParse(rawurl) ==
    LET stop == SchemeStop(rawurl)
        hasScheme == stop > 1 /\ rawurl[stop] = ":"
        rest == IF hasScheme THEN SubSeq(rawurl, stop + 1, Len(rawurl)) ELSE rawurl
        noAuthority == [err |-> NoErr, host |-> <<>>,
                        hasUser |-> FALSE, password |-> <<>>, passwordSet |-> FALSE]
        colon == Index(rest, ":")
        slash == Index(rest, "/")
        afterSlashes == SubSeq(rest, 3, Len(rest))
        authEnd == Index(afterSlashes, "/")
        authority == IF authEnd = 0 THEN afterSlashes
                     ELSE SubSeq(afterSlashes, 1, authEnd - 1)
    IN  IF stop = 1 /\ rawurl[1] = ":"
        THEN [noAuthority EXCEPT !.err = ErrURLParse("missing protocol scheme")]
        ELSE IF ~HasPrefix(rest, <<"/">>) /\ hasScheme
        THEN noAuthority
        ELSE IF ~HasPrefix(rest, <<"/">>) /\ colon # 0 /\ (slash = 0 \/ colon < slash)
        THEN [noAuthority EXCEPT
                 !.err = ErrURLParse("first path segment in URL cannot contain colon")]
        ELSE IF HasPrefix(rest, <<"/", "/">>) /\ (hasScheme \/ ~HasPrefix(rest, <<"/", "/", "/">>))
        THEN parseAuthority(authority)
        ELSE noAuthority

(***************************************************************************)
(* The service binding (cfenv.App) and the resolver.                       *)
(***************************************************************************)
\* A credential value: a string, a value of another type, or no entry.
CredString(v) == [type |-> "string", val |-> v]
CredOther == [type |-> "number", val |-> <<>>]
CredMissing == [type |-> "nil", val |-> <<>>]

\* Credentials[key].(string): the value and whether the assertion succeeded.
AsString(service, key) ==
    LET v == service.creds[key]
    IN  [val |-> IF v.type = "string" THEN v.val ELSE <<>>, ok |-> v.type = "string"]

DefaultURI == <<"redis", ":", "/", "/", "localhost", ":", "6379">>

\* fmt.Sprintf("redis://:%s@%s:%s", password, host, port)
SprintfRedisURI(password, host, port) ==
    <<"redis", ":", "/", "/", ":">> \o password \o <<"@">> \o host \o <<":">> \o port

\* cfenv Services.WithTag: the services carrying the tag, in order; an error
\* when there is none.
WithTag(app, tag) ==
    LET idx == {i \in 1..Len(app.services) : tag \in app.services[i].tags}
        pick[n \in 0..Len(app.services)] ==
            IF n = 0 THEN <<>>
            ELSE IF n \in idx THEN Append(pick[n - 1], app.services[n])
            ELSE pick[n - 1]
    IN  [services |-> pick[Len(app.services)],
         err |-> IF idx = {} THEN ErrorsNew("no services with tag redis") ELSE NoErr]

getRedisURIFromParts(service) ==
    LET host == AsString(service, "hostname")
        port == AsString(service, "port")
        password == AsString(service, "password")
    IN  IF ~host.ok THEN [uri |-> <<>>, err |-> ErrorsNew("Could not find \"host\" key")]
        ELSE IF ~port.ok THEN [uri |-> <<>>, err |-> ErrorsNew("Could not find \"port\" key")]
        ELSE IF ~password.ok
        THEN [uri |-> <<>>, err |-> ErrorsNew("Could not find \"password\" key")]
        ELSE [uri |-> SprintfRedisURI(password.val, host.val, port.val), err |-> NoErr]

\* getRedisService with the error of getRedisURIFromParts handed on as it is.
getRedisServicePropagates(app) ==
    LET tagged == WithTag(app, "redis")
        credURI == AsString(tagged.services[1], "uri")
        parts == getRedisURIFromParts(tagged.services[1])
    IN  IF app.isNil
        THEN [uri |-> <<>>, err |-> ErrorsNew("Empty Cloud Foundry environment")]
        ELSE IF tagged.err # NoErr THEN [uri |-> <<>>, err |-> tagged.err]
        ELSE IF Len(tagged.services) = 0
        THEN [uri |-> <<>>, err |-> ErrorsNew("Could not find service with tag \"redis\"")]
        ELSE IF ~credURI.ok THEN parts
        ELSE [uri |-> credURI.val, err |-> NoErr]

getRedisService(app) ==
    LET tagged == WithTag(app, "redis")
        credURI == AsString(tagged.services[1], "uri")
        parts == getRedisURIFromParts(tagged.services[1])
    IN  IF app.isNil
        THEN [uri |-> <<>>, err |-> ErrorsNew("Empty Cloud Foundry environment")]
        ELSE IF tagged.err # NoErr THEN [uri |-> <<>>, err |-> tagged.err]
        ELSE IF Len(tagged.services) = 0
        THEN [uri |-> <<>>, err |-> ErrorsNew("Could not find service with tag \"redis\"")]
        ELSE IF ~credURI.ok
        THEN IF parts.err = NoErr THEN [uri |-> parts.uri, err |-> NoErr]
             ELSE [uri |-> <<>>, err |-> ErrorsNew("Could not parse redis uri")]
        ELSE [uri |-> credURI.val, err |-> NoErr]

\* The binding consulted whatever REDIS_URI holds.
NeedsServiceAlways(direct) == TRUE

\* settings.go 242: if uri == ""
NeedsService(direct) == direct = <<>>

\* The URI getRedisSettings goes on to parse, from os.Getenv("REDIS_URI") and the
\* outcome of getRedisService (consulted only when the former is empty).
ChosenURI(direct, svc) ==
    LET tried == IF NeedsService(direct) THEN svc ELSE [uri |-> direct, err |-> NoErr]
    IN  IF tried.uri = <<>> \/ tried.err # NoErr THEN DefaultURI ELSE tried.uri

ParseResult(uri) ==
    LET u == urlParse(uri)
    IN  IF u.err # NoErr THEN [address |-> <<>>, password |-> <<>>, err |-> u.err]
        ELSE [address |-> u.host,
              password |-> IF u.hasUser THEN u.password ELSE <<>>,
              err |-> NoErr]

getRedisSettings(direct, app) ==
    ParseResult(ChosenURI(direct, getRedisService(app)))

(***************************************************************************)
(* Inputs: os.Getenv("REDIS_URI") and the cfenv.App handed to InitSettings.*)
(***************************************************************************)
BoundURI == <<"redis", ":", "/", "/", ":", "secret", "@", "cachehost", ":", "6380">>

DirectURIs ==
    { <<>>,
      <<"redis", ":", "/", "/", ":", "hunter", "@", "direct", ":", "7000">>,
      <<"redis", ":", "/", "/", "direct", ":", "7000">>,
      <<"redis", ":", "/", "/", "hunter", "@", "direct">>,
      <<":", "/", "/", "direct">>,
      <<"redis", ":", "/", "/", "direct", ":", "secret">> }

CredKeys == {"uri", "hostname", "port", "password"}

CredMaps ==
    { c \in [CredKeys -> {CredMissing, CredOther, CredString(<<>>), CredString(BoundURI),
                          CredString(<<"cachehost">>), CredString(<<"6380">>),
                          CredString(<<"secret">>)}] :
        /\ c["uri"] \in {CredMissing, CredOther, CredString(<<>>), CredString(BoundURI)}
        /\ c["hostname"] \in {CredMissing, CredString(<<"cachehost">>)}
        /\ c["port"] \in {CredMissing, CredOther, CredString(<<"6380">>)}
        /\ c["password"] \in {CredMissing, CredString(<<"secret">>)} }

ServiceMenu == [tags : {{"redis"}, {"postgres"}}, creds : CredMaps]

ServiceLists == UNION {[1..n -> ServiceMenu] : n \in 0..MaxServices}

NilApp == [isNil |-> TRUE, services |-> <<>>]

Apps == {NilApp} \cup {[isNil |-> FALSE, services |-> l] : l \in ServiceLists}

(***************************************************************************)
(* The environment accessor (EnvVars: Get, MustGet, BoolGet).  A variable  *)
(* of the environment is [set, val]; the keys are the accessor's constants.*)
(***************************************************************************)
RequiredKeys ==
    {"HostnameEnvVar", "APIURLEnvVar", "LoginURLEnvVar", "UAAURLEnvVar", "LogURLEnvVar",
     "ClientIDEnvVar", "ClientSecretEnvVar", "SessionKeyEnvVar",
     "SMTPFromEnvVar", "SMTPHostEnvVar"}
SMTPOptionalKeys == {"SMTPPassEnvVar", "SMTPPortEnvVar", "SMTPUserEnvVar"}
FlagKeys == {"LocalCFEnvVar", "SecureCookiesEnvVar"}
EnvKeys ==
    RequiredKeys \cup SMTPOptionalKeys \cup FlagKeys \cup
    {"BasePathEnvVar", "BuildInfoEnvVar", "PProfEnabledEnvVar", "SessionBackendEnvVar",
     "TICSecretEnvVar"}

Unset == [set |-> FALSE, val |-> ""]
SetTo(v) == [set |-> TRUE, val |-> v]

\* EnvVars.Get(key, default)
Get(e, key, default) == IF e[key].set THEN e[key].val ELSE default
\* EnvVars.MustGet(key) panics with *ErrMissingEnvVar when the key is absent.
MustGetPanics(e, key) == ~e[key].set
\* EnvVars.BoolGet(key): strconv.ParseBool of the value, false when absent or unparseable.
BoolGet(e, key) == e[key].set /\ e[key].val \in {"1", "t", "T", "TRUE", "true", "True"}

\* The environments explored: which keys are absent and what the others hold.
MakeEnv(absent, localCF, secureCookies, backend) ==
    [k \in EnvKeys |->
        CASE k \in absent -> Unset
          [] k = "LocalCFEnvVar" -> localCF
          [] k = "SecureCookiesEnvVar" -> secureCookies
          [] k = "SessionBackendEnvVar" -> backend
          [] k = "PProfEnabledEnvVar" -> SetTo("true")
          [] k = "BuildInfoEnvVar" -> SetTo("build-42")
          [] k = "BasePathEnvVar" -> SetTo("/app")
          [] k = "TICSecretEnvVar" -> Unset
          [] OTHER -> SetTo("value")]

FlagChoices == {Unset, SetTo("true"), SetTo("false")}
BackendChoices == {Unset, SetTo("redis"), SetTo("memcached")}

Environments ==
    { MakeEnv(missing \cup optional, l, c, b) :
        missing \in {m \in SUBSET RequiredKeys : Cardinality(m) <= MaxMissing},
        optional \in SUBSET (SMTPOptionalKeys \cup {"BuildInfoEnvVar"}),
        l \in FlagChoices, c \in FlagChoices, b \in BackendChoices }

(***************************************************************************)
(* The Settings struct: its fields in the order InitSettings assigns them. *)
(***************************************************************************)
FieldOrder ==
    <<"BasePath", "AppURL", "ConsoleAPI", "LoginURL", "UaaURL", "LogURL", "PProfEnabled",
      "BuildInfo", "LocalCF", "SecureCookies", "OAuthConfig", "StateGenerator",
      "Sessions", "SessionBackend", "SessionBackendHealthCheck",
      "HighPrivilegedOauthConfig", "SMTPFrom", "SMTPHost", "SMTPPass", "SMTPPort",
      "SMTPUser", "TICSecret">>
AllFields == {FieldOrder[i] : i \in 1..Len(FieldOrder)}

NilConfig ==
    [isNil |-> TRUE, ClientID |-> "", ClientSecret |-> "", RedirectURL |-> <<>>,
     Scopes |-> <<>>, AuthURL |-> <<>>, TokenURL |-> <<>>]
NilStore ==
    [kind |-> "nil", maxLength |-> 0, HttpOnly |-> FALSE, MaxAge |-> 0, Path |-> "",
     Secure |-> FALSE]

\* The zero value of Settings.
ZeroSettings ==
    [f \in AllFields |->
        CASE f \in {"PProfEnabled", "LocalCF", "SecureCookies"} -> FALSE
          [] f \in {"OAuthConfig", "HighPrivilegedOauthConfig"} -> NilConfig
          [] f = "Sessions" -> NilStore
          [] f \in {"StateGenerator", "SessionBackendHealthCheck"} -> "nil"
          [] OTHER -> ""]

expirationConstant == 60 * 60 * 24 * 7

\* settings.go 109-118: the scalar fields, one statement each.
ScalarStmts ==
    << [field |-> "BasePath", op |-> "Get", key |-> "BasePathEnvVar", default |-> ""],
       [field |-> "AppURL", op |-> "MustGet", key |-> "HostnameEnvVar", default |-> ""],
       [field |-> "ConsoleAPI", op |-> "MustGet", key |-> "APIURLEnvVar", default |-> ""],
       [field |-> "LoginURL", op |-> "MustGet", key |-> "LoginURLEnvVar", default |-> ""],
       [field |-> "UaaURL", op |-> "MustGet", key |-> "UAAURLEnvVar", default |-> ""],
       [field |-> "LogURL", op |-> "MustGet", key |-> "LogURLEnvVar", default |-> ""],
       [field |-> "PProfEnabled", op |-> "BoolGet", key |-> "PProfEnabledEnvVar",
        default |-> ""],
       [field |-> "BuildInfo", op |-> "Get", key |-> "BuildInfoEnvVar",
        default |-> "developer-build"],
       [field |-> "LocalCF", op |-> "BoolGet", key |-> "LocalCFEnvVar", default |-> ""],
       [field |-> "SecureCookies", op |-> "BoolGet", key |-> "SecureCookiesEnvVar",
        default |-> ""] >>

\* settings.go 229-234: the mail-relay fields and the proxy secret.
SMTPStmtsPassRequired ==
    << [field |-> "SMTPFrom", op |-> "MustGet", key |-> "SMTPFromEnvVar", default |-> ""],
       [field |-> "SMTPHost", op |-> "MustGet", key |-> "SMTPHostEnvVar", default |-> ""],
       [field |-> "SMTPPass", op |-> "MustGet", key |-> "SMTPPassEnvVar", default |-> ""],
       [field |-> "SMTPPort", op |-> "Get", key |-> "SMTPPortEnvVar", default |-> ""],
       [field |-> "SMTPUser", op |-> "Get", key |-> "SMTPUserEnvVar", default |-> ""],
       [field |-> "TICSecret", op |-> "Get", key |-> "TICSecretEnvVar", default |-> ""] >>

SMTPStmtsHostOptional ==
    << [field |-> "SMTPFrom", op |-> "MustGet", key |-> "SMTPFromEnvVar", default |-> ""],
       [field |-> "SMTPHost", op |-> "Get", key |-> "SMTPHostEnvVar", default |-> ""],
       [field |-> "SMTPPass", op |-> "Get", key |-> "SMTPPassEnvVar", default |-> ""],
       [field |-> "SMTPPort", op |-> "Get", key |-> "SMTPPortEnvVar", default |-> ""],
       [field |-> "SMTPUser", op |-> "Get", key |-> "SMTPUserEnvVar", default |-> ""],
       [field |-> "TICSecret", op |-> "Get", key |-> "TICSecretEnvVar", default |-> ""] >>

SMTPStmts ==
    << [field |-> "SMTPFrom", op |-> "MustGet", key |-> "SMTPFromEnvVar", default |-> ""],
       [field |-> "SMTPHost", op |-> "MustGet", key |-> "SMTPHostEnvVar", default |-> ""],
       [field |-> "SMTPPass", op |-> "Get", key |-> "SMTPPassEnvVar", default |-> ""],
       [field |-> "SMTPPort", op |-> "Get", key |-> "SMTPPortEnvVar", default |-> ""],
       [field |-> "SMTPUser", op |-> "Get", key |-> "SMTPUserEnvVar", default |-> ""],
       [field |-> "TICSecret", op |-> "Get", key |-> "TICSecretEnvVar", default |-> ""] >>

\* Straight-line assignments s.field = envVars.op(key): the Settings value, the
\* fields written and the key whose MustGet panicked ("" when none did).
RECURSIVE ExecStmts(_, _, _, _, _)
ExecStmts(stmts, i, e, st, written) ==
    IF i > Len(stmts) THEN [s |-> st, assigned |-> written, panic |-> ""]
    ELSE LET x == stmts[i]
         IN  IF x.op = "MustGet" /\ MustGetPanics(e, x.key)
             THEN [s |-> st, assigned |-> written, panic |-> x.key]
             ELSE ExecStmts(stmts, i + 1, e,
                            [st EXCEPT ![x.field] =
                                IF x.op = "BoolGet" THEN BoolGet(e, x.key)
                                ELSE Get(e, x.key, x.default)],
                            written \cup {x.field})

\* The first key of a sequence whose MustGet panics, "" when none does.
FirstMissing(e, keys) ==
    LET bad == {i \in 1..Len(keys) : MustGetPanics(e, keys[i])}
    IN  IF bad = {} THEN "" ELSE keys[CHOOSE i \in bad : \A j \in bad : i <= j]

\* settings.go 121: the secure-cookies safeguard.
InsecureCombinationInverted(st) == st["LocalCF"] = FALSE /\ st["SecureCookies"] = TRUE

InsecureCombination(st) == st["LocalCF"] = FALSE /\ st["SecureCookies"] = FALSE

ErrInsecureCookies ==
    ErrorsNew("cannot run with insecure cookies when targeting a production CF environment")

\* settings.go 126-135: &oauth2.Config{...}
OAuthConfigOf(e, st) ==
    [isNil |-> FALSE,
     ClientID |-> Get(e, "ClientIDEnvVar", ""),
     ClientSecret |-> Get(e, "ClientSecretEnvVar", ""),
     RedirectURL |-> <<st["AppURL"], "/oauth2callback">>,
     Scopes |-> <<"cloud_controller.read", "cloud_controller.write",
                  "cloud_controller.admin", "scim.read", "openid">>,
     AuthURL |-> <<Get(e, "LoginURLEnvVar", ""), "/oauth/authorize">>,
     TokenURL |-> <<Get(e, "UAAURLEnvVar", ""), "/oauth/token">>]

\* settings.go 222-227: &clientcredentials.Config{...}
HighPrivilegedConfigOf(e) ==
    [isNil |-> FALSE,
     ClientID |-> Get(e, "ClientIDEnvVar", ""),
     ClientSecret |-> Get(e, "ClientSecretEnvVar", ""),
     RedirectURL |-> <<>>,
     Scopes |-> <<"scim.invite", "cloud_controller.admin", "scim.read">>,
     AuthURL |-> <<>>,
     TokenURL |-> <<Get(e, "UAAURLEnvVar", ""), "/oauth/token">>]

\* settings.go 182-188 and 204-213: the store with its length cap and cookie options.
StoreOf(kind, st) ==
    [kind |-> kind, maxLength |-> 4096 * 4, HttpOnly |-> TRUE,
     MaxAge |-> expirationConstant, Path |-> "/", Secure |-> st["SecureCookies"]]

(***************************************************************************)
(* The redis server as the connections see it, and the pool's Dial.        *)
(***************************************************************************)
\* up: the server accepts connections; requirePass: it demands AUTH before any
\* other command; accepts: the configured password is the server's password.
ServerStates(pw) ==
    { sv \in [up : BOOLEAN, requirePass : BOOLEAN, accepts : BOOLEAN] :
        sv.accepts => (sv.requirePass /\ pw # <<>>) }

ErrDial == [kind |-> "redis", arg |-> "dial tcp: connection refused"]
ErrAuth == [kind |-> "redis", arg |-> "AUTH failed"]
ErrNoAuth == [kind |-> "redis", arg |-> "NOAUTH Authentication required"]
ErrIO == [kind |-> "redis", arg |-> "i/o error"]

\* The reply to AUTH: an error unless the server demands a password and it is this one.
AuthReply(sv) == IF sv.requirePass /\ sv.accepts THEN NoErr ELSE ErrAuth

\* settings.go 169: "if _, authErr := c.Do("AUTH", password); err != nil" tests the
\* err of the enclosing case clause, not authErr.
AuthFailureDetected(authErr, capturedErr) == capturedErr # NoErr

\* settings.go 156-175: Dial.  conn: a connection is returned; open: the socket
\* it created is still open; authed: the server holds it authenticated.
Dial(sv, pw, capturedErr) ==
    IF ~sv.up
    THEN [conn |-> FALSE, err |-> ErrDial, open |-> FALSE, authIssued |-> FALSE,
          authErr |-> NoErr, authed |-> FALSE]
    ELSE IF pw # <<>>
    THEN IF AuthFailureDetected(AuthReply(sv), capturedErr)
         THEN [conn |-> FALSE, err |-> AuthReply(sv), open |-> FALSE, authIssued |-> TRUE,
               authErr |-> AuthReply(sv), authed |-> AuthReply(sv) = NoErr]
         ELSE [conn |-> TRUE, err |-> NoErr, open |-> TRUE, authIssued |-> TRUE,
               authErr |-> AuthReply(sv), authed |-> AuthReply(sv) = NoErr]
    ELSE [conn |-> TRUE, err |-> NoErr, open |-> TRUE, authIssued |-> FALSE,
          authErr |-> NoErr, authed |-> FALSE]

\* c.Do("PING") on an open connection: an i/o error when the server is down, an
\* error reply when it demands a password the connection has not given.
PingReply(sv, authed) ==
    IF ~sv.up THEN ErrIO
    ELSE IF sv.requirePass /\ ~authed THEN ErrNoAuth
    ELSE NoErr

\* redistore.NewRediStoreWithPool: builds the store and pings through a connection
\* borrowed from the (still empty) pool; the error is the ping's.
NewRediStoreWithPool(sv, pw, capturedErr) ==
    LET d == Dial(sv, pw, capturedErr)
    IN  IF ~d.conn THEN (IF d.err # NoErr THEN d.err ELSE ErrIO)
        ELSE PingReply(sv, d.authed)

VARIABLES
    redisURI,   \* os.Getenv("REDIS_URI"); <<>> when unset or empty
    cfApp,      \* the *cfenv.App argument
    env,        \* the environment behind the *EnvVars argument
    rpc,        \* position in getRedisSettings
    uri,        \* getRedisSettings: uri
    rerr,       \* getRedisSettings: err
    partsErr,   \* the error getRedisURIFromParts returned to getRedisService, if it ran
    consulted,  \* whether the service binding was read
    rres,       \* what getRedisSettings returned: [address, password, err]
    pc,         \* position in InitSettings
    s,          \* the Settings value the caller holds
    assigned,   \* the fields of s this call has written
    retErr,     \* InitSettings: retErr
    panicKey,   \* the key of the *ErrMissingEnvVar in flight
    err,        \* InitSettings, case "redis": err (the Dial closure reads it)
    address,    \* InitSettings, case "redis": address
    password,   \* InitSettings, case "redis": password
    made,       \* what the call has constructed so far
    srv,        \* the redis server
    idle,       \* redisPool: the number of idle connections
    held,       \* the number of request-handling units holding a connection
    lastPut,    \* what the last return of a connection to the pool did with it
    hpc,        \* position of the health probe (SessionBackendHealthCheck)
    hleft,      \* Pool.Get in the probe: idle connections it may still try
    hconn,      \* the probe's c: "none", "conn" or "errconn"
    hdial,      \* what Dial returned to the probe's Pool.Get
    hprobe,     \* the probe's PING: [pingErr, upAtPing, closed]
    hresult     \* what the probe returned

inputVars == <<redisURI, cfApp, env>>
resolveVars == <<rpc, uri, rerr, partsErr, consulted, rres>>
settingsVars == <<pc, s, assigned, retErr, panicKey, err, address, password, made>>
poolVars == <<idle, held, lastPut, hpc, hleft, hconn, hdial, hprobe, hresult>>
vars == <<inputVars, resolveVars, settingsVars, srv, poolVars>>

NoResult == [address |-> <<>>, password |-> <<>>, err |-> NoErr]

ResolveIdle ==
    /\ rpc = "start"
    /\ uri = <<>>
    /\ rerr = NoErr
    /\ partsErr = NoErr
    /\ consulted = FALSE
    /\ rres = NoResult

\* Whether getRedisService goes as far as getRedisURIFromParts (line 277).
ReachesParts(app) ==
    /\ ~app.isNil
    /\ WithTag(app, "redis").err = NoErr
    /\ ~AsString(WithTag(app, "redis").services[1], "uri").ok

\* settings.go 241-242: uri := os.Getenv("REDIS_URI"); if uri == ""
ReadDirectURI ==
    /\ rpc = "start"
    /\ uri' = redisURI
    /\ rpc' = IF NeedsService(redisURI) THEN "service" ELSE "fallback"
    /\ UNCHANGED <<inputVars, settingsVars, srv, poolVars, rerr, partsErr, consulted, rres>>

\* settings.go 244: uri, err = getRedisService(env)
CallRedisService ==
    /\ rpc = "service"
    /\ consulted' = TRUE
    /\ uri' = getRedisService(cfApp).uri
    /\ rerr' = getRedisService(cfApp).err
    /\ partsErr' = IF ReachesParts(cfApp)
                   THEN getRedisURIFromParts(WithTag(cfApp, "redis").services[1]).err
                   ELSE NoErr
    /\ rpc' = "fallback"
    /\ UNCHANGED <<inputVars, settingsVars, srv, poolVars, rres>>

\* settings.go 247-249: if uri == "" || err != nil { uri = "redis://localhost:6379" }
DefaultToLocalhost ==
    /\ rpc = "fallback"
    /\ uri' = IF uri = <<>> \/ rerr # NoErr THEN DefaultURI ELSE uri
    /\ rpc' = "parse"
    /\ UNCHANGED <<inputVars, settingsVars, srv, poolVars, rerr, partsErr, consulted, rres>>

\* settings.go 251-261: url.Parse(uri), u.Host and u.User.Password()
ParseAndReturn ==
    /\ rpc = "parse"
    /\ rres' = ParseResult(uri)
    /\ rerr' = ParseResult(uri).err
    /\ rpc' = "done"
    /\ UNCHANGED <<inputVars, settingsVars, srv, poolVars, uri, partsErr, consulted>>

(***************************************************************************)
(* The redis pool as InitSettings configures it (MaxIdle 10, no MaxActive, *)
(* no Wait, TestOnBorrow PING, Dial), the request-handling units that      *)
(* borrow from it and the health probe.                                    *)
(***************************************************************************)
MaxIdle == 10
\* redis.Pool.MaxActive is left at its zero value: no limit on connections.
MaxActive == 0
\* redis.Pool.Wait is left at its zero value.
Wait == FALSE

NoDial ==
    [conn |-> FALSE, err |-> NoErr, open |-> FALSE, authIssued |-> FALSE,
     authErr |-> NoErr, authed |-> FALSE]
NoProbe == [pingErr |-> NoErr, upAtPing |-> TRUE, closed |-> FALSE]

PoolIdle ==
    /\ idle = 0
    /\ held = 0
    /\ lastPut = "none"
    /\ hpc = "idle"
    /\ hleft = 0
    /\ hconn = "none"
    /\ hdial = NoDial
    /\ hprobe = NoProbe
    /\ hresult = FALSE

\* Pool.put without the MaxIdle trim.
PutIdleUncapped(n) == n + 1

\* Pool.put: the connection goes to the front of the idle list, and the one at the
\* back is closed when the list has outgrown MaxIdle.
PutIdle(n) == IF n + 1 > MaxIdle THEN MaxIdle ELSE n + 1

\* Pool.get with MaxActive and Wait as configured: a borrower that finds no idle
\* connection dials, it never waits for a release.
BorrowWaits(active) == Wait /\ MaxActive # 0 /\ active >= MaxActive

\* Connections open in the pool's name.
Active == idle + held + (IF hpc \in {"test", "dial"} \/ hconn = "conn" THEN 1 ELSE 0)

\* Whether the server holds a connection dialed with the configured password
\* authenticated, and whether AUTH was sent and refused.
ConnAuthed == Dial([srv EXCEPT !.up = TRUE], password, err).authed
AuthRefused == password # <<>> /\ AuthReply(srv) # NoErr

\* What TestOnBorrow's PING can answer on a pooled connection: the server's reply,
\* or an i/o error when the connection has gone stale.
PooledPingReplies == {PingReply(srv, ConnAuthed), ErrIO}

\* A request-handling unit borrows (redistore: Pool.Get): idle connections past
\* IdleTimeout are closed, idle connections are tested front first and dropped on
\* a failed PING, and with none left a connection is dialed.
RequestBorrow ==
    /\ held < NumRequests
    /\ \E kept \in 0..idle :
         \/ \E used \in 1..kept :
              /\ NoErr \in PooledPingReplies
              /\ idle' = kept - used
              /\ held' = held + 1
         \/ /\ idle' = 0
            /\ held' = IF Dial(srv, password, err).conn THEN held + 1 ELSE held
    /\ UNCHANGED <<inputVars, resolveVars, settingsVars, srv, lastPut, hpc, hleft, hconn,
                   hdial, hprobe, hresult>>

\* A request-handling unit returns its connection (conn.Close -> Pool.put): a
\* connection that saw an i/o error is closed, any other goes back to the pool.
RequestRelease ==
    /\ held > 0
    /\ held' = held - 1
    /\ \E broken \in BOOLEAN :
         IF broken
         THEN idle' = idle /\ lastPut' = "closed"
         ELSE /\ idle' = PutIdle(idle)
              /\ lastPut' = IF idle + 1 > MaxIdle THEN "evicted" ELSE "pooled"
    /\ UNCHANGED <<inputVars, resolveVars, settingsVars, srv, hpc, hleft, hconn, hdial,
                   hprobe, hresult>>

\* The server goes down or comes back.
ServerFlip ==
    /\ srv' = [srv EXCEPT !.up = ~srv.up]
    /\ UNCHANGED <<inputVars, resolveVars, settingsVars, poolVars>>

\* settings.go 193-194: the health check is called and enters redisPool.Get().
ProbeCall ==
    /\ hpc \in {"idle", "returned"}
    /\ hpc' = "get"
    /\ hconn' = "none"
    /\ hdial' = NoDial
    /\ hprobe' = NoProbe
    /\ hresult' = FALSE
    /\ hleft' = 0
    /\ UNCHANGED <<inputVars, resolveVars, settingsVars, srv, idle, held, lastPut>>

\* Pool.get under the pool's mutex: prune, then take the front idle connection
\* to test it, or go on to dial.
ProbeAcquire ==
    /\ hpc = "get"
    /\ \E kept \in 0..idle :
         IF kept > 0
         THEN /\ idle' = kept - 1
              /\ hleft' = kept - 1
              /\ hpc' = "test"
         ELSE /\ ~BorrowWaits(Active)
              /\ idle' = 0
              /\ hleft' = 0
              /\ hpc' = "dial"
    /\ UNCHANGED <<inputVars, resolveVars, settingsVars, srv, held, lastPut, hconn, hdial,
                   hprobe, hresult>>

\* settings.go 152-155: TestOnBorrow; a connection that fails the PING is closed
\* and the next idle one is tried, then a new one is dialed.
ProbeTest ==
    /\ hpc = "test"
    /\ \E reply \in PooledPingReplies :
         IF reply = NoErr
         THEN /\ hpc' = "ping"
              /\ hconn' = "conn"
              /\ UNCHANGED <<idle, hleft>>
         ELSE IF hleft > 0 /\ idle > 0
         THEN /\ idle' = idle - 1
              /\ hleft' = hleft - 1
              /\ UNCHANGED <<hpc, hconn>>
         ELSE /\ hpc' = "dial"
              /\ hleft' = 0
              /\ UNCHANGED <<idle, hconn>>
    /\ UNCHANGED <<inputVars, resolveVars, settingsVars, srv, held, lastPut, hdial, hprobe,
                   hresult>>

\* settings.go 156-175: Dial on behalf of the probe's Pool.Get; a failed dial
\* gives the probe an error connection.
ProbeDial ==
    /\ hpc = "dial"
    /\ hdial' = Dial(srv, password, err)
    /\ hconn' = IF Dial(srv, password, err).conn THEN "conn" ELSE "errconn"
    /\ hpc' = "ping"
    /\ UNCHANGED <<inputVars, resolveVars, settingsVars, srv, idle, held, lastPut, hleft,
                   hprobe, hresult>>

\* settings.go 196-201: c.Do("PING") and the boolean made of its error.
ProbePing ==
    /\ hpc = "ping"
    /\ \E reply \in (IF hconn = "errconn" THEN {hdial.err}
                     ELSE {PingReply(srv, ConnAuthed), ErrIO}) :
         /\ hprobe' = [hprobe EXCEPT !.pingErr = reply, !.upAtPing = srv.up]
         /\ hresult' = (reply = NoErr)
    /\ hpc' = "close"
    /\ UNCHANGED <<inputVars, resolveVars, settingsVars, srv, idle, held, lastPut, hleft,
                   hconn, hdial>>

\* settings.go 195: defer c.Close() hands the connection to Pool.put; the probe
\* then returns hresult.
ProbeClose ==
    /\ hpc = "close"
    /\ IF hconn = "conn" /\ hprobe.pingErr # ErrIO
       THEN /\ idle' = PutIdle(idle)
            /\ lastPut' = IF idle + 1 > MaxIdle THEN "evicted" ELSE "pooled"
       ELSE /\ idle' = idle
            /\ lastPut' = IF hconn = "conn" THEN "closed" ELSE lastPut
    /\ hprobe' = [hprobe EXCEPT !.closed = TRUE]
    /\ hconn' = "none"
    /\ hpc' = "returned"
    /\ UNCHANGED <<inputVars, resolveVars, settingsVars, srv, held, hleft, hdial, hresult>>

ProbeStep == ProbeAcquire \/ ProbeTest \/ ProbeDial \/ ProbePing \/ ProbeClose

(***************************************************************************)
(* Settings.InitSettings, statement group by statement group.              *)
(***************************************************************************)
ServerIdle == [up |-> TRUE, requirePass |-> FALSE, accepts |-> FALSE]

SettingsIdle ==
    /\ pc = "start"
    /\ s = ZeroSettings
    /\ assigned = {}
    /\ retErr = NoErr
    /\ panicKey = ""
    /\ err = NoErr
    /\ address = <<>>
    /\ password = <<>>
    /\ made = {}

\* settings.go 109-118
ReadScalars ==
    /\ pc = "start"
    /\ LET r == ExecStmts(ScalarStmts, 1, env, s, assigned)
       IN  /\ s' = r.s
           /\ assigned' = r.assigned
           /\ panicKey' = r.panic
           /\ pc' = IF r.panic # "" THEN "panic" ELSE "check"
    /\ UNCHANGED <<inputVars, resolveVars, poolVars, srv, retErr, err, address, password, made>>

\* settings.go 121-123
CheckCookies ==
    /\ pc = "check"
    /\ IF InsecureCombination(s)
       THEN retErr' = ErrInsecureCookies /\ pc' = "done"
       ELSE retErr' = retErr /\ pc' = "oauth"
    /\ UNCHANGED <<inputVars, resolveVars, poolVars, srv, s, assigned, panicKey, err, address,
                   password, made>>

\* settings.go 126-139
BuildOAuth ==
    /\ pc = "oauth"
    /\ LET k == FirstMissing(env, <<"ClientIDEnvVar", "ClientSecretEnvVar",
                                     "LoginURLEnvVar", "UAAURLEnvVar">>)
       IN  IF k # ""
           THEN /\ panicKey' = k
                /\ pc' = "panic"
                /\ UNCHANGED <<s, assigned>>
           ELSE /\ s' = [s EXCEPT !["OAuthConfig"] = OAuthConfigOf(env, s),
                                  !["StateGenerator"] = "GenerateRandomString(32)"]
                /\ assigned' = assigned \cup {"OAuthConfig", "StateGenerator"}
                /\ pc' = "sessions"
                /\ UNCHANGED panicKey
    /\ UNCHANGED <<inputVars, resolveVars, poolVars, srv, retErr, err, address, password, made>>

\* settings.go 142-143, 203: switch envVars.Get(SessionBackendEnvVar, "")
SelectBackend ==
    /\ pc = "sessions"
    /\ pc' = IF Get(env, "SessionBackendEnvVar", "") = "redis" THEN "redis" ELSE "file"
    /\ UNCHANGED <<inputVars, resolveVars, poolVars, srv, s, assigned, retErr, panicKey, err,
                   address, password, made>>

\* settings.go 145-147, 179-181 as a fallback to the file store would have them.
OnBackendErrorFallsBack(e) == [pc |-> "file", retErr |-> NoErr]

\* settings.go 145-147, 179-181: if err != nil { return err }
OnBackendError(e) == [pc |-> "done", retErr |-> e]

\* settings.go 144-147
ResolveRedis ==
    /\ pc = "redis"
    /\ LET r == getRedisSettings(redisURI, cfApp)
       IN  /\ address' = r.address
           /\ password' = r.password
           /\ err' = r.err
           /\ made' = made \cup {"resolved"}
           /\ IF r.err # NoErr
              THEN pc' = OnBackendError(r.err).pc /\ retErr' = OnBackendError(r.err).retErr
              ELSE pc' = "pool" /\ retErr' = retErr
    /\ UNCHANGED <<inputVars, resolveVars, poolVars, srv, s, assigned, panicKey>>

\* settings.go 149-181: the pool, then redistore.NewRediStoreWithPool with the
\* session key; the server is in whatever state it is in when the store pings it.
NewRedisStore ==
    /\ pc = "pool"
    /\ IF MustGetPanics(env, "SessionKeyEnvVar")
       THEN /\ made' = made \cup {"pool"}
            /\ panicKey' = "SessionKeyEnvVar"
            /\ pc' = "panic"
            /\ UNCHANGED <<srv, err, retErr>>
       ELSE \E sv \in ServerStates(password) :
              LET e == NewRediStoreWithPool(sv, password, err)
              IN  /\ srv' = sv
                  /\ made' = made \cup {"pool", "redistore"}
                  /\ err' = e
                  /\ IF e # NoErr
                     THEN pc' = OnBackendError(e).pc /\ retErr' = OnBackendError(e).retErr
                     ELSE pc' = "redisAssign" /\ retErr' = retErr
                  /\ UNCHANGED panicKey
    /\ UNCHANGED <<inputVars, resolveVars, poolVars, s, assigned, address, password>>

\* settings.go 182-202
AssignRedis ==
    /\ pc = "redisAssign"
    /\ s' = [s EXCEPT !["Sessions"] = StoreOf("redistore", s),
                      !["SessionBackend"] = "redis",
                      !["SessionBackendHealthCheck"] = "redisPing"]
    /\ assigned' = assigned \cup {"Sessions", "SessionBackend", "SessionBackendHealthCheck"}
    /\ made' = made \cup {"healthcheck"}
    /\ pc' = "highpriv"
    /\ UNCHANGED <<inputVars, resolveVars, poolVars, srv, retErr, panicKey, err, address, password>>

\* settings.go 204-216
FileStore ==
    /\ pc = "file"
    /\ IF MustGetPanics(env, "SessionKeyEnvVar")
       THEN /\ panicKey' = "SessionKeyEnvVar"
            /\ pc' = "panic"
            /\ UNCHANGED <<s, assigned, made>>
       ELSE /\ s' = [s EXCEPT !["Sessions"] = StoreOf("filesystemstore", s),
                              !["SessionBackend"] = "file",
                              !["SessionBackendHealthCheck"] = "alwaysTrue"]
            /\ assigned' = assigned \cup
                              {"Sessions", "SessionBackend", "SessionBackendHealthCheck"}
            /\ made' = made \cup {"filestore", "healthcheck"}
            /\ pc' = "highpriv"
            /\ UNCHANGED panicKey
    /\ UNCHANGED <<inputVars, resolveVars, poolVars, srv, retErr, err, address, password>>

\* settings.go 220-227
BuildHighPrivileged ==
    /\ pc = "highpriv"
    /\ LET k == FirstMissing(env, <<"ClientIDEnvVar", "ClientSecretEnvVar", "UAAURLEnvVar">>)
       IN  IF k # ""
           THEN /\ panicKey' = k
                /\ pc' = "panic"
                /\ UNCHANGED <<s, assigned>>
           ELSE /\ s' = [s EXCEPT !["HighPrivilegedOauthConfig"] = HighPrivilegedConfigOf(env)]
                /\ assigned' = assigned \cup {"HighPrivilegedOauthConfig"}
                /\ pc' = "smtp"
                /\ UNCHANGED panicKey
    /\ UNCHANGED <<inputVars, resolveVars, poolVars, srv, retErr, err, address, password, made>>

\* settings.go 229-235
ReadSMTP ==
    /\ pc = "smtp"
    /\ LET r == ExecStmts(SMTPStmts, 1, env, s, assigned)
       IN  /\ s' = r.s
           /\ assigned' = r.assigned
           /\ panicKey' = r.panic
           /\ pc' = IF r.panic # "" THEN "panic" ELSE "done"
    /\ UNCHANGED <<inputVars, resolveVars, poolVars, srv, retErr, err, address, password, made>>

\* The deferred function with the recover forgotten: the panic is dropped.
RecoverSwallows ==
    /\ pc = "panic"
    /\ pc' = "done"
    /\ UNCHANGED <<inputVars, resolveVars, poolVars, srv, s, assigned, retErr, panicKey, err,
                   address, password, made>>

\* settings.go 94-107: the deferred function turns the *ErrMissingEnvVar panic into
\* the returned error.
Recover ==
    /\ pc = "panic"
    /\ retErr' = ErrMissingEnvVar(panicKey)
    /\ pc' = "done"
    /\ UNCHANGED <<inputVars, resolveVars, poolVars, srv, s, assigned, panicKey, err, address,
                   password, made>>

\* The redis inputs InitSettings is run with.
BoundApp ==
    [isNil |-> FALSE,
     services |-> << [tags |-> {"redis"},
                      creds |-> [k \in CredKeys |->
                                    IF k = "uri" THEN CredString(BoundURI)
                                    ELSE CredMissing]] >>]

LegacyApp ==
    [isNil |-> FALSE,
     services |-> << [tags |-> {"redis"},
                      creds |-> [k \in CredKeys |->
                                    CASE k = "hostname" -> CredString(<<"cachehost">>)
                                      [] k = "port" -> CredOther
                                      [] OTHER -> CredMissing]] >>]

RedisInputs ==
    { <<(<<>>), NilApp>>,
      <<(<<>>), BoundApp>>,
      <<(<<>>), LegacyApp>>,
      <<(<<"redis", ":", "/", "/", "direct", ":", "7000">>), BoundApp>>,
      <<(<<"redis", ":", "/", "/", "direct", ":", "secret">>), NilApp>> }

Init ==
    /\ env \in Environments
    /\ \E in \in RedisInputs : redisURI = in[1] /\ cfApp = in[2]
    /\ ResolveIdle
    /\ SettingsIdle
    /\ srv = ServerIdle
    /\ PoolIdle

Next ==
    \/ ReadScalars
    \/ CheckCookies
    \/ BuildOAuth
    \/ SelectBackend
    \/ ResolveRedis
    \/ NewRedisStore
    \/ AssignRedis
    \/ FileStore
    \/ BuildHighPrivileged
    \/ ReadSMTP
    \/ Recover

Spec == Init /\ [][Next]_vars

InitResolve ==
    /\ redisURI \in DirectURIs
    /\ cfApp \in Apps
    /\ env = MakeEnv({}, SetTo("true"), SetTo("true"), SetTo("redis"))
    /\ ResolveIdle
    /\ SettingsIdle
    /\ srv = ServerIdle
    /\ PoolIdle

NextResolve ==
    \/ ReadDirectURI
    \/ CallRedisService
    \/ DefaultToLocalhost
    \/ ParseAndReturn

SpecResolve == InitResolve /\ [][NextResolve]_vars

\* The Settings value a successful InitSettings with the "redis" backend leaves
\* in the caller's hands (settings.go 109-234, no statement failing).
RedisSettingsOf(e) ==
    LET a == ExecStmts(ScalarStmts, 1, e, ZeroSettings, {}).s
        b == [a EXCEPT !["OAuthConfig"] = OAuthConfigOf(e, a),
                       !["StateGenerator"] = "GenerateRandomString(32)"]
        c == [b EXCEPT !["Sessions"] = StoreOf("redistore", b),
                       !["SessionBackend"] = "redis",
                       !["SessionBackendHealthCheck"] = "redisPing"]
        d == [c EXCEPT !["HighPrivilegedOauthConfig"] = HighPrivilegedConfigOf(e)]
    IN  ExecStmts(SMTPStmts, 1, e, d, AllFields).s

\* The state InitSettings leaves behind when it succeeds with the "redis"
\* backend: err is nil, address and password are what the resolver gave, and the
\* connection the store's ping borrowed is back in the pool.
SettingsReturnedRedis ==
    /\ pc = "done"
    /\ s = RedisSettingsOf(env)
    /\ assigned = AllFields
    /\ retErr = NoErr
    /\ panicKey = ""
    /\ err = NoErr
    /\ address = getRedisSettings(redisURI, cfApp).address
    /\ password = getRedisSettings(redisURI, cfApp).password
    /\ made = {"resolved", "pool", "redistore", "healthcheck"}

\* The pool once InitSettings has returned nil: the server is one the store's
\* ping got through to, and that ping's connection is the one idle connection.
InitPool ==
    /\ \E in \in RedisInputs :
         /\ getRedisSettings(in[1], in[2]).err = NoErr
         /\ redisURI = in[1]
         /\ cfApp = in[2]
    /\ env = MakeEnv({}, SetTo("true"), SetTo("true"), SetTo("redis"))
    /\ ResolveIdle
    /\ SettingsReturnedRedis
    /\ srv \in {sv \in ServerStates(password) :
                   NewRediStoreWithPool(sv, password, NoErr) = NoErr}
    /\ idle = 1
    /\ held = 0
    /\ lastPut = "pooled"
    /\ hpc = "idle"
    /\ hleft = 0
    /\ hconn = "none"
    /\ hdial = NoDial
    /\ hprobe = NoProbe
    /\ hresult = FALSE

NextPool ==
    \/ RequestBorrow
    \/ RequestRelease
    \/ ServerFlip
    \/ ProbeCall
    \/ ProbeAcquire
    \/ ProbeTest
    \/ ProbeDial
    \/ ProbePing
    \/ ProbeClose

\* The probe is a running goroutine: each of its steps, once it can be taken, is
\* taken (Dial and PING are bounded by the 10 s connect, read and write timeouts).
SpecPool == InitPool /\ [][NextPool]_vars /\ WF_vars(ProbeStep)

(***************************************************************************)
(* Properties of InitSettings (checked under Spec).                        *)
(***************************************************************************)
MissingRequired == {k \in RequiredKeys : ~env[k].set}
Selector == IF env["SessionBackendEnvVar"].set THEN env["SessionBackendEnvVar"].val ELSE ""
CookiesValid ==
    \/ env["LocalCFEnvVar"] = SetTo("true")
    \/ env["SecureCookiesEnvVar"] = SetTo("true")
SessionFields == {"Sessions", "SessionBackend", "SessionBackendHealthCheck"}
BackendObjects == {"pool", "redistore", "filestore", "healthcheck"}
BeforeSessionsKeys ==
    {"HostnameEnvVar", "APIURLEnvVar", "LoginURLEnvVar", "UAAURLEnvVar", "LogURLEnvVar",
     "ClientIDEnvVar", "ClientSecretEnvVar"}
MailRequiredKeys == {"SMTPFromEnvVar", "SMTPHostEnvVar"}
Returned == pc = "done"

\* C1 as stated: when InitSettings returns a non-nil error, no field of the
\* caller's Settings value has been populated by the call.
C1_NothingPopulatedOnFailure ==
    (Returned /\ retErr # NoErr) => assigned = {}

\* C1 as amended: InitSettings writes the caller's Settings in place.  With a nil
\* error every field is populated.  With a non-nil error the fields assigned
\* before the failing statement stay populated (a prefix of the assignment order
\* that holds at least BasePath) and the later ones keep their zero value;
\* Sessions, SessionBackend and the health check are among the populated ones
\* exactly when the failure is a missing SMTP_FROM or SMTP_HOST.
C1_PrefixPopulatedOnFailure ==
    Returned =>
        /\ \E n \in 0..Len(FieldOrder) : assigned = {FieldOrder[i] : i \in 1..n}
        /\ (retErr = NoErr <=> assigned = AllFields)
        /\ (retErr # NoErr => "BasePath" \in assigned)
        /\ (retErr # NoErr =>
               /\ SessionFields \subseteq assigned <=>
                     retErr \in {ErrMissingEnvVar(k) : k \in MailRequiredKeys}
               /\ SessionFields \subseteq assigned \/ SessionFields \cap assigned = {})
        /\ \A f \in AllFields \ assigned : s[f] = ZeroSettings[f]

\* C1 witness: a failed call (SMTP_FROM missing) that left Sessions, OAuthConfig,
\* SessionBackend and the health check populated.
C1_Witness ==
    /\ Returned
    /\ retErr = ErrMissingEnvVar("SMTPFromEnvVar")
    /\ {"Sessions", "OAuthConfig", "SessionBackend", "SessionBackendHealthCheck"}
          \subseteq assigned
    /\ s["SessionBackend"] # ""

\* C2 as stated: with exactly one MustGet field absent from an otherwise valid
\* environment, InitSettings returns ErrMissingEnvVar naming it and no session
\* backend (store, pool, health check) has been constructed or assigned.
C2_MissingFieldAndNoBackend ==
    Returned =>
        \A k \in RequiredKeys :
            (MissingRequired = {k} /\ CookiesValid /\ err = NoErr) =>
                /\ retErr = ErrMissingEnvVar(k)
                /\ made \cap BackendObjects = {}
                /\ assigned \cap SessionFields = {}

\* C2 as amended: with exactly one MustGet field absent from an otherwise valid
\* environment, InitSettings returns ErrMissingEnvVar naming it.  No session
\* backend has been constructed or assigned when the field is read before the
\* session switch (hostname, the four URLs, client id, client secret).  When the
\* session key is absent, no store or health check exists and nothing is
\* assigned, but with the "redis" selector the connection string has been resolved
\* and the pool constructed.  When SMTP_FROM or SMTP_HOST is absent, the session
\* backend has already been constructed and assigned.
C2_MissingFieldNamed ==
    Returned =>
        \A k \in RequiredKeys :
            (MissingRequired = {k} /\ CookiesValid /\ err = NoErr) =>
                /\ retErr = ErrMissingEnvVar(k)
                /\ k \in BeforeSessionsKeys =>
                      made = {} /\ assigned \cap SessionFields = {}
                /\ k = "SessionKeyEnvVar" =>
                      /\ made \cap {"redistore", "filestore", "healthcheck"} = {}
                      /\ assigned \cap SessionFields = {}
                      /\ "pool" \in made <=> Selector = "redis"
                      /\ "resolved" \in made <=> Selector = "redis"
                /\ k \in MailRequiredKeys =>
                      /\ SessionFields \subseteq assigned
                      /\ "healthcheck" \in made
                      /\ made \cap {"redistore", "filestore"} # {}

\* C2 witness: only SMTP_HOST is absent; the error names it and the session
\* backend is in place.
C2_Witness ==
    /\ Returned
    /\ MissingRequired = {"SMTPHostEnvVar"}
    /\ retErr = ErrMissingEnvVar("SMTPHostEnvVar")
    /\ SessionFields \subseteq assigned
    /\ "filestore" \in made

FlagsResolvedFalse ==
    /\ {"LocalCF", "SecureCookies"} \subseteq assigned
    /\ s["LocalCF"] = FALSE
    /\ s["SecureCookies"] = FALSE

\* C3: once LocalCF and SecureCookies have both resolved to false, InitSettings
\* fails with the insecure-cookies error and never reaches session backend
\* construction (no resolution, pool or store), whatever the selector; an
\* environment whose flags are both false never yields success or a backend; and
\* every successful call has SecureCookies or LocalCF true.
C3_InsecureCookiesAbort ==
    /\ FlagsResolvedFalse =>
          /\ pc \in {"check", "done"}
          /\ made = {}
          /\ assigned \cap SessionFields = {}
          /\ Returned => retErr = ErrInsecureCookies
    /\ ~CookiesValid => (made = {} /\ (Returned => retErr # NoErr))
    /\ (Returned /\ retErr = NoErr) => (s["SecureCookies"] = TRUE \/ s["LocalCF"] = TRUE)

\* C3 witness: both flags false with the "redis" selector; the call returned the
\* insecure-cookies error.
C3_Witness ==
    /\ Returned
    /\ FlagsResolvedFalse
    /\ Selector = "redis"
    /\ retErr = ErrInsecureCookies

\* C9: with the selector "redis", a failure while building the cache backend
\* (resolution or store construction) is what InitSettings returns, and the file
\* backend is never built in its place: SessionBackend = "file" implies another
\* selector, and selector "redis" ends in an error or in SessionBackend = "redis".
C9_NoFallbackToFile ==
    /\ Selector = "redis" => ("filestore" \notin made /\ s["SessionBackend"] # "file")
    /\ (Returned /\ s["SessionBackend"] = "file") => Selector # "redis"
    /\ (Returned /\ Selector = "redis") => (retErr # NoErr \/ s["SessionBackend"] = "redis")
    /\ (Returned /\ err # NoErr) =>
          (retErr = err /\ assigned \cap SessionFields = {})

\* C9 witness: selector "redis", the store's ping failed on an unreachable
\* server, and InitSettings returned that error.
C9_Witness ==
    /\ Returned
    /\ Selector = "redis"
    /\ "redistore" \in made
    /\ ~srv.up
    /\ retErr = ErrDial

OthersValid ==
    /\ MissingRequired \subseteq MailRequiredKeys
    /\ CookiesValid
    /\ err = NoErr

SMTPFieldOf(k) ==
    CASE k = "SMTPPassEnvVar" -> "SMTPPass"
      [] k = "SMTPPortEnvVar" -> "SMTPPort"
      [] k = "SMTPUserEnvVar" -> "SMTPUser"

\* C10 as stated: every mail-relay setting is optional; with every other input
\* valid InitSettings succeeds whichever of them are absent, each absent one
\* left at its default.
C10_AllMailSettingsOptional ==
    (Returned /\ OthersValid) =>
        /\ retErr = NoErr
        /\ \A k \in SMTPOptionalKeys : ~env[k].set => s[SMTPFieldOf(k)] = ""

\* C10 as amended: the mail-relay password, port and user are optional and default
\* to the empty string: with every other input valid and SMTP_FROM and SMTP_HOST
\* present, InitSettings succeeds whichever of the three are absent.  The
\* from-address and the host are required: when one is absent InitSettings fails
\* with ErrMissingEnvVar naming it (the from-address first).
C10_MailFromAndHostRequired ==
    (Returned /\ OthersValid) =>
        /\ (MissingRequired = {}) =>
              /\ retErr = NoErr
              /\ \A k \in SMTPOptionalKeys :
                    s[SMTPFieldOf(k)] = IF env[k].set THEN env[k].val ELSE ""
              /\ s["SMTPFrom"] = env["SMTPFromEnvVar"].val
              /\ s["SMTPHost"] = env["SMTPHostEnvVar"].val
        /\ ~env["SMTPFromEnvVar"].set => retErr = ErrMissingEnvVar("SMTPFromEnvVar")
        /\ (env["SMTPFromEnvVar"].set /\ ~env["SMTPHostEnvVar"].set) =>
              retErr = ErrMissingEnvVar("SMTPHostEnvVar")

\* C10 witness: password, port and user all absent, the call succeeded and left
\* the three fields empty.
C10_Witness ==
    /\ Returned
    /\ retErr = NoErr
    /\ \A k \in SMTPOptionalKeys : ~env[k].set /\ s[SMTPFieldOf(k)] = ""
    /\ s["SMTPFrom"] = "value"

(***************************************************************************)
(* Properties of the resolver (checked under SpecResolve).                 *)
(***************************************************************************)
RedisTagged(app) == {i \in 1..Len(app.services) : "redis" \in app.services[i].tags}
HasRedisService(app) == ~app.isNil /\ RedisTagged(app) # {}
FirstRedisService(app) ==
    app.services[CHOOSE i \in RedisTagged(app) : \A j \in RedisTagged(app) : i <= j]
IsStringCred(app, key) == FirstRedisService(app).creds[key].type = "string"
CredValue(app, key) == FirstRedisService(app).creds[key].val
LegacyParts == <<"hostname", "port", "password">>
MissingParts(app) == {i \in 1..3 : ~IsStringCred(app, LegacyParts[i])}
LocalDefault == [address |-> <<"localhost", ":", "6379">>, password |-> <<>>, err |-> NoErr]
ResolverReturned == rpc = "done"

\* C4: the resolver follows the chain in order.  A set REDIS_URI is what gets
\* parsed and the binding is never consulted; with REDIS_URI unset, a non-empty
\* string "uri" credential of the first service tagged "redis" is what gets parsed
\* (redis://:secret@cachehost:6380 gives cachehost:6380 and secret); when neither
\* yields a URI the result is localhost:6379 with an empty password.
C4_ChainOrder ==
    /\ consulted => redisURI = <<>>
    /\ (ResolverReturned /\ redisURI # <<>>) =>
          /\ ~consulted
          /\ rres = ParseResult(redisURI)
          /\ redisURI = <<"redis", ":", "/", "/", ":", "hunter", "@", "direct", ":", "7000">>
                => (rres.address = <<"direct", ":", "7000">> /\ rres.password = <<"hunter">>)
    /\ (ResolverReturned /\ redisURI = <<>> /\ HasRedisService(cfApp)
           /\ IsStringCred(cfApp, "uri") /\ CredValue(cfApp, "uri") # <<>>) =>
          /\ consulted
          /\ rres = ParseResult(CredValue(cfApp, "uri"))
          /\ CredValue(cfApp, "uri") = BoundURI
                => (rres.address = <<"cachehost", ":", "6380">>
                    /\ rres.password = <<"secret">> /\ rres.err = NoErr)
    /\ (ResolverReturned /\ redisURI = <<>> /\
           (\/ ~HasRedisService(cfApp)
            \/ (IsStringCred(cfApp, "uri") /\ CredValue(cfApp, "uri") = <<>>)
            \/ (~IsStringCred(cfApp, "uri") /\ MissingParts(cfApp) # {}))) =>
          rres = LocalDefault

\* C4 witness: REDIS_URI is set and the binding holds a redis service with a uri;
\* the direct URI won and the binding was not read.
C4_Witness ==
    /\ ResolverReturned
    /\ redisURI = <<"redis", ":", "/", "/", "direct", ":", "7000">>
    /\ HasRedisService(cfApp)
    /\ IsStringCred(cfApp, "uri")
    /\ CredValue(cfApp, "uri") = BoundURI
    /\ ~consulted
    /\ rres.address = <<"direct", ":", "7000">>

LegacyIncomplete ==
    /\ redisURI = <<>>
    /\ HasRedisService(cfApp)
    /\ ~IsStringCred(cfApp, "uri")
    /\ MissingParts(cfApp) # {}

FirstMissingPart ==
    LegacyParts[CHOOSE i \in MissingParts(cfApp) : \A j \in MissingParts(cfApp) : i <= j]

\* C6 as stated: when the legacy reconstruction misses one of hostname, port and
\* password, the missing-credential-field error is what the caller of the
\* resolver gets: neither replaced nor swallowed.
C6_MissingFieldErrorReachesCaller ==
    (ResolverReturned /\ LegacyIncomplete) => (rres.err # NoErr /\ rres.err = partsErr)

\* C6 as amended: when the legacy reconstruction misses one of hostname, port and
\* password (checked in that order), getRedisURIFromParts returns an error naming
\* the key ("host" for hostname); getRedisService replaces it by "Could not parse
\* redis uri"; getRedisSettings swallows that error and falls back: its caller
\* gets localhost:6379, an empty password and a nil error.
C6_MissingFieldErrorSwallowed ==
    LegacyIncomplete =>
        /\ rpc \in {"fallback", "parse", "done"} =>
              partsErr = ErrorsNew(CASE FirstMissingPart = "hostname" ->
                                            "Could not find \"host\" key"
                                     [] FirstMissingPart = "port" ->
                                            "Could not find \"port\" key"
                                     [] FirstMissingPart = "password" ->
                                            "Could not find \"password\" key")
        /\ rpc \in {"fallback", "parse"} => rerr = ErrorsNew("Could not parse redis uri")
        /\ rpc = "fallback" => uri = <<>>
        /\ rpc = "parse" => uri = DefaultURI
        /\ ResolverReturned => rres = LocalDefault

\* C6 witness: the port credential is not a string; the caller got the local
\* default and no error.
C6_Witness ==
    /\ ResolverReturned
    /\ LegacyIncomplete
    /\ partsErr = ErrorsNew("Could not find \"port\" key")
    /\ rres = LocalDefault

\* The err that the Dial closure reads is nil whenever Dial can run: while the
\* store pings during construction, and ever after a successful return.
ErrNilWhenDialRuns ==
    (pc \in {"pool", "redisAssign", "highpriv", "smtp"} \/ (Returned /\ "redistore" \in made
                                                              /\ SessionFields \subseteq assigned))
        => err = NoErr

\* Every successful return of InitSettings with the "redis" backend is a state
\* the pool's specification starts from.
RedisReturnIsPoolStart ==
    (Returned /\ retErr = NoErr /\ s["SessionBackend"] = "redis") =>
        /\ s = RedisSettingsOf(env)
        /\ assigned = AllFields
        /\ err = NoErr
        /\ address = getRedisSettings(redisURI, cfApp).address
        /\ password = getRedisSettings(redisURI, cfApp).password
        /\ made = {"resolved", "pool", "redistore", "healthcheck"}
        /\ srv \in ServerStates(password)
        /\ NewRediStoreWithPool(srv, password, NoErr) = NoErr

(***************************************************************************)
(* Properties of the pool, its Dial and the health probe (under SpecPool). *)
(***************************************************************************)
\* C5: in Dial, with a non-empty password, AUTH is issued right after a
\* successful connect, and a failed AUTH closes the connection and fails the
\* dial, so no caller is handed a connection whose authentication failed.
C5_FailedAuthFailsDial ==
    /\ (hpc \in {"ping", "close", "returned"} /\ hdial.open) =>
          (hdial.authIssued <=> password # <<>>)
    /\ (hdial.authIssued /\ hdial.authErr # NoErr) =>
          (~hdial.conn /\ ~hdial.open /\ hdial.err # NoErr)
    /\ (hconn = "conn" /\ hdial.authIssued) => hdial.authErr = NoErr

\* C7: the redis health probe returns false when the backend is unreachable or
\* when authentication fails, true when the PING round trip succeeds, and by the
\* time it returns it has handed its connection back to the pool.
C7_ProbeVerdict ==
    hpc = "returned" =>
        /\ ~hprobe.upAtPing => hresult = FALSE
        /\ (hdial.authIssued /\ hdial.authErr # NoErr) => hresult = FALSE
        /\ hprobe.pingErr = NoErr => hresult = TRUE
        /\ hprobe.closed /\ hconn = "none"

====
